---- MODULE Spec2Model ----
(***************************************************************************)
(* Model of the Gmail ingestion pipeline of email_sources/gmail_connector: *)
(* the driver main(), GmailConnector.process_domain_emails and the calls   *)
(* it makes (watermark query, Gmail messages.list / messages.get, S3       *)
(* put_object, metrics insert), together with the external collaborators   *)
(* the pipeline talks to: the mailbox, the S3 bucket, and the downstream   *)
(* processing that fills PROCESSED_EMAILS from the delivered objects.      *)
(***************************************************************************)
EXTENDS Integers, Sequences, FiniteSets, TLC

(* ------------------------------ bounds -------------------------------- *)
MaxMsgs == 2          \* messages that ever arrive in the mailbox
MaxNow == 2           \* the clock stops ticking here
TicksPerDay == 2      \* clock ticks that share one calendar day
MaxInvocations == 2   \* invocations of main()
MaxEmailsPerRun == 2  \* largest config['max_emails_per_run'] tried
MaxParts == 2         \* parts in one multipart payload
MaxDepth == 2         \* nesting depth of a payload tree
MaxBatch == 3         \* emails in a batch handed to a direct-insert sink
MaxClock == 2         \* seconds the clock advances while a source builds a batch
DayLength == 2        \* seconds after which a time of day ('%H%M%S') repeats
MaxIds == 6           \* greatest message number a server search returns
MaxEmails == 3        \* greatest max_emails a source is called with

(* ------------------------- program constants -------------------------- *)
FallbackDays == 7     \* timedelta(days=7)
LastFive == 5         \* email_ids[-5:]
QueryTtl == 30        \* @st.cache_data(ttl=30), seconds
TickSeconds == 15     \* seconds between two observations of the monitoring app's clock
MaxMonClock == 45     \* greatest reading of that clock
MaxConns == 2         \* connections the warehouse opens for the monitoring app
MaxClicks == 3        \* clicks on the automation buttons
MaxRows == 3          \* rows in PROCESSED_EMAILS, and processing actions a session starts
MaxOther == 2         \* rows another run of the direct processor inserts

\* config['target_domains'], each domain a sequence of characters
TargetDomains == << <<"a", ".", "b">>, <<"a", "_", "b">> >>

Domains == {TargetDomains[i] : i \in 1..Len(TargetDomains)}

None == <<>>
NoResult == [status |-> "none"]

VARIABLES
    max_emails_per_run, \* config['max_emails_per_run'], fixed at start
    now,            \* the wall clock, in ticks
    mailbox,        \* the messages in the Gmail account: [id, dom, at]
    s3,             \* the bucket: set of objects [key, body]
    pending,        \* keys of objects the downstream has not yet ingested
    processed,      \* PROCESSED_EMAILS: the messages ingested downstream
    metrics,        \* number of REALTIME_METRICS inserts
    pc,             \* position of the driver / the current run
    invocations,    \* invocations of main() started so far
    di,             \* main: index of the domain being processed
    total_processed,\* main: total_processed
    domain,         \* process_domain_emails: domain
    start_time,     \* process_domain_emails: start_time
    last_processed, \* fetch_emails_from_domain: last_processed (None or <<day>>)
    query,          \* the query of the messages.list call issued in this run: None or <<q>>
    messages,       \* fetch_emails_from_domain: listed messages not yet detailed
    listed,         \* what messages.list returned in this run: None or <<ids>>
    emails,         \* detailed_emails / emails
    result,         \* the value returned by process_domain_emails
    puts,           \* put_object calls issued by the current run
    calls,          \* history: the external calls of the current run, in order, with their outcome
    attempted,      \* history: the domains main() has called process_domain_emails on
    setup_calls,    \* history: the setup calls of the current invocation of main(), with their outcome
    lastFailed,     \* history: per domain, the batch of its last run if its delivery failed
    payload_kinds,  \* the payloads arriving messages are drawn from, fixed at start
    payload,        \* extract_body_content: the payload handed to one call
    body_content,   \* extract_body_content: the value that call returned
    sink,           \* the direct-insert function that is called
    sink_emails,    \* its batch: the ids of the emails, in order
    sink_pc,        \* its position
    sink_i,         \* the index of the email its for loop is at
    success_count,  \* insert_emails_to_snowflake: success_count
    processed_count,\* process_gmail_emails_direct: processed_count
    pending_files,  \* process_gmail_emails_direct: pending_files not yet processed
    raw_email_files,\* RAW_EMAIL_FILES: the ids of the rows the call has committed
    trigger_calls,  \* CALL statements of the downstream processing issued by the call
    insert_failures,\* history: the ids whose INSERT raised
    sink_returned,  \* None, or <<the value the call returned>>
    mon_clock,      \* monitoring app: the clock, in seconds
    conn_cache,     \* monitoring app: init_connection's cache_resource entry: None or <<conn>>
    conns_created,  \* connections opened so far; they are numbered 1..conns_created
    dead,           \* the connections whose session has expired
    query_cache,    \* monitoring app: run_query's cache_data entries: per statement None or <<time cached>>
    executed,       \* the automation CALLs the warehouse has executed, in order
    shown,          \* the message the last script run showed for the button clicked
    clicks,         \* clicks on the automation buttons so far
    gets,           \* history: the get_fresh_connection calls of the last script run
    uploads,        \* RAW_EMAIL_FILES: the PENDING gmail_direct rows [run, email], in upload order
    pe_rows,        \* single-email apps: PROCESSED_EMAILS, in insertion order; email_id is the position
    email_summaries,\* single-email apps: EMAIL_SUMMARIES
    form_pc,        \* per session: the position of its processing action
    form_key,       \* per session: the sender and subject it processes
    form_email_id,  \* per session: email_id, None (<<>>) before the SELECT
    form_n,         \* per session: the number of processing actions it has started
    source,         \* the source function that builds a batch
    src_clock,      \* datetime.now(), in seconds
    email_ids,      \* the message numbers or ids the server search returned, in server order
    max_emails,     \* the max_emails argument
    src_pc,         \* the position of the source function
    src_i,          \* the index its loop is at
    src_emails      \* the ids of the emails of the batch it builds, in order

vars == <<max_emails_per_run, now, mailbox, s3, pending, processed, metrics, pc, invocations, di,
          total_processed, domain, start_time, last_processed, query, messages,
          listed, emails, result, puts, calls, attempted, setup_calls, lastFailed,
          payload_kinds,
          payload, body_content, sink, sink_emails, sink_pc, sink_i, success_count,
          processed_count, pending_files, raw_email_files, trigger_calls,
          insert_failures, sink_returned, mon_clock, conn_cache, conns_created, dead,
          query_cache, executed, shown, clicks, gets, uploads,
          pe_rows, email_summaries, form_pc, form_key, form_email_id, form_n,
          source, src_clock, email_ids, max_emails,
          src_pc, src_i, src_emails>>

\* what the driver and its runs never assign
sinkVars == <<sink, sink_emails, sink_pc, sink_i, success_count, processed_count,
             pending_files, raw_email_files, trigger_calls, insert_failures,
             sink_returned>>
srcVars == <<source, src_clock, email_ids, max_emails, src_pc, src_i, src_emails>>

\* the variables of the other source functions and of the applications
monVars == <<mon_clock, conn_cache, conns_created, dead, query_cache, executed, shown,
            clicks, gets>>

formVars == <<pe_rows, email_summaries, form_pc, form_key, form_email_id, form_n>>

directVars == <<uploads>>

beyond == <<srcVars, monVars, formVars, directVars>>

aside == <<max_emails_per_run, payload_kinds, payload, body_content, sinkVars, beyond>>

store == <<s3, pending, processed, metrics>>
runLocals == <<domain, start_time, last_processed, query, messages, listed, emails,
              result, puts, calls>>
mainLocals == <<invocations, di, total_processed, attempted, setup_calls>>

(* ----------------------------- helpers -------------------------------- *)
\* strftime('%Y/%m/%d'): the calendar day of a clock value
Day(t) == t \div TicksPerDay

Max(S) == CHOOSE x \in S : \A y \in S : y <= x

RECURSIVE SeqOfSetDesc(_)
\* the messages of S as a sequence, newest (highest id) first
SeqOfSetDesc(S) ==
    IF S = {} THEN <<>>
    ELSE LET m == CHOOSE x \in S : \A y \in S : y.id <= x.id
         IN <<m>> \o SeqOfSetDesc(S \ {m})

Take(s, n) == SubSeq(s, 1, IF Len(s) < n THEN Len(s) ELSE n)

Range(s) == {s[i] : i \in 1..Len(s)}

(* ----------------------- pure parts of the code ----------------------- *)
\* the fallback window whatever the store holds
LastProcessedTimestamp_AlwaysFallback(rows, t) ==
    <<Day(t - FallbackDays * TicksPerDay)>>

\* get_last_processed_timestamp, when the query executes: the day of
\* MAX(email_date) over all rows of PROCESSED_EMAILS, or now - 7 days
LastProcessedTimestamp(rows, t) ==
    IF rows # {}
    THEN <<Day(Max({m.at : m \in rows}))>>
    ELSE <<Day(t - FallbackDays * TicksPerDay)>>

\* the query string built by fetch_emails_from_domain
BuildQuery(d, lp) == [from |-> d, after |-> lp]

\* Gmail search: from:<domain> [after:<day>]
Matches(m, q) ==
    /\ m.dom = q.from
    /\ (q.after = None \/ Day(m.at) >= q.after[1])

\* users().messages().list(q, maxResults).execute(): the first page of the
\* matching messages, newest first; the ids only
GmailList(box, q, max_results) ==
    LET page == Take(SeqOfSetDesc({m \in box : Matches(m, q)}), max_results)
    IN [i \in 1..Len(page) |-> page[i].id]

(* --------------------------- body extractor --------------------------- *)
\* A payload node: mimeType, data (None when body has no 'data' key, else
\* <<d>> with d the base64url text as a sequence of 6-bit values) and parts
\* (None when the node has no 'parts' key, else <<the list of parts>>).
Node(mime, data, parts) == [mimeType |-> mime, data |-> data, parts |-> parts]

\* the text as UTF-8 bytes (code points below 2048)
RECURSIVE Utf8Encode(_)
Utf8Encode(text) ==
    IF text = <<>> THEN <<>>
    ELSE LET c == Head(text)
         IN (IF c < 128 THEN <<c>> ELSE <<192 + c \div 64, 128 + (c % 64)>>)
            \o Utf8Encode(Tail(text))

\* base64url of the bytes, three bytes to four 6-bit values, padding stripped
RECURSIVE B64Encode(_)
B64Encode(bytes) ==
    IF Len(bytes) = 0 THEN <<>>
    ELSE IF Len(bytes) = 1
    THEN <<bytes[1] \div 4, (bytes[1] % 4) * 16>>
    ELSE IF Len(bytes) = 2
    THEN <<bytes[1] \div 4, (bytes[1] % 4) * 16 + bytes[2] \div 16,
           (bytes[2] % 16) * 4>>
    ELSE <<bytes[1] \div 4, (bytes[1] % 4) * 16 + bytes[2] \div 16,
           (bytes[2] % 16) * 4 + bytes[3] \div 64, bytes[3] % 64>>
         \o B64Encode(SubSeq(bytes, 4, Len(bytes)))

\* the bytes of complete and trailing groups of 6-bit values
RECURSIVE B64Bytes(_)
B64Bytes(d) ==
    IF Len(d) < 2 THEN <<>>
    ELSE IF Len(d) = 2
    THEN <<d[1] * 4 + d[2] \div 16>>
    ELSE IF Len(d) = 3
    THEN <<d[1] * 4 + d[2] \div 16, (d[2] % 16) * 16 + d[3] \div 4>>
    ELSE <<d[1] * 4 + d[2] \div 16, (d[2] % 16) * 16 + d[3] \div 4,
           (d[3] % 4) * 64 + d[4]>>
         \o B64Bytes(SubSeq(d, 5, Len(d)))

\* base64.urlsafe_b64decode(data + '==='): raises when one 6-bit value is
\* left over, else the padding is enough whatever the length
B64Decode(d) ==
    IF Len(d) % 4 = 1 THEN [ok |-> FALSE, bytes |-> <<>>]
    ELSE [ok |-> TRUE, bytes |-> B64Bytes(d)]

\* bytes.decode('utf-8') for one- and two-byte sequences; any other byte raises
RECURSIVE Utf8Decode(_)
Utf8Decode(bytes) ==
    IF bytes = <<>> THEN [ok |-> TRUE, text |-> <<>>]
    ELSE IF bytes[1] < 128
    THEN LET r == Utf8Decode(Tail(bytes))
         IN [ok |-> r.ok, text |-> IF r.ok THEN <<bytes[1]>> \o r.text ELSE <<>>]
    ELSE IF /\ bytes[1] >= 194 /\ bytes[1] < 224 /\ Len(bytes) >= 2
            /\ bytes[2] >= 128 /\ bytes[2] < 192
    THEN LET r == Utf8Decode(SubSeq(bytes, 3, Len(bytes)))
         IN [ok |-> r.ok,
             text |-> IF r.ok
                      THEN <<(bytes[1] - 192) * 64 + (bytes[2] - 128)>> \o r.text
                      ELSE <<>>]
    ELSE [ok |-> FALSE, text |-> <<>>]

\* the values extract_body_content returns: a text or one of two sentinels
TextContent(t) == [kind |-> "text", text |-> t]
NoReadableContent == [kind |-> "No readable content found", text |-> <<>>]
ContentExtractionFailed == [kind |-> "Content extraction failed", text |-> <<>>]

\* decode_data inside the try of extract_body_content: an exception of either
\* decoding step ends the call with "Content extraction failed"
DecodeData(d) ==
    LET b == B64Decode(d)
        u == Utf8Decode(b.bytes)
    IN IF b.ok /\ u.ok THEN TextContent(u.text) ELSE ContentExtractionFailed

\* `if content:` -- every string but the empty one
Truthy(content) == content.kind # "text" \/ content.text # <<>>

\* the test extract_body_content applies to the result of the recursive call
NestedContentFound(content) == Truthy(content)

\* a single part is decoded only when it is text/plain
SinglePartDecoded_PlainOnly(p) ==
    p.data # None /\ p.data[1] # <<>> /\ p.mimeType = "text/plain"

\* `elif payload.get('body', {}).get('data')`: data present and not empty
SinglePartDecoded(p) == p.data # None /\ p.data[1] # <<>>

RECURSIVE ExtractBodyContent(_), ScanParts(_, _)
\* the loop `for part in payload['parts']`, from part i on
ScanParts(parts, i) ==
    IF i > Len(parts) THEN NoReadableContent
    ELSE LET part == parts[i]
         IN IF part.mimeType = "text/plain"
            THEN IF part.data # None THEN DecodeData(part.data[1])
                 ELSE ScanParts(parts, i + 1)
            ELSE IF part.parts # None
            THEN LET content == ExtractBodyContent(part)
                 IN IF NestedContentFound(content) THEN content
                    ELSE ScanParts(parts, i + 1)
            ELSE ScanParts(parts, i + 1)

\* extract_body_content(payload)
ExtractBodyContent(p) ==
    IF p.parts # None THEN ScanParts(p.parts[1], 1)
    ELSE IF SinglePartDecoded(p) THEN DecodeData(p.data[1])
    ELSE NoReadableContent

\* the texts and the undecodable data the payloads of the model carry
Texts == {<<>>, <<72, 105>>}
BadData == {<<0>>, <<63, 63>>}
DataChoices ==
    {None} \cup {<<B64Encode(Utf8Encode(t))>> : t \in Texts} \cup {<<d>> : d \in BadData}
Mimes == {"text/plain", "text/html"}

Leaves == {Node(m, d, None) : m \in Mimes, d \in DataChoices}

SeqsUpTo(S, n) == UNION {[1..k -> S] : k \in 0..n}

RECURSIVE Trees(_)
\* the payload trees of at most the given nesting depth
Trees(depth) ==
    IF depth = 0 THEN Leaves
    ELSE LET sub == Trees(depth - 1)
         IN sub \cup {Node("multipart/mixed", None, <<ps>>) : ps \in SeqsUpTo(sub, MaxParts)}

\* a single text/plain part carrying "Hi"
PlainHi == Node("text/plain", <<B64Encode(Utf8Encode(<<72, 105>>))>>, None)

\* a single text/plain part whose data cannot be decoded
PlainBad == Node("text/plain", <<(<<63, 63>>)>>, None)

Unset == [kind |-> "unset", text |-> <<>>]

\* the dict built by get_email_details for message m fetched at clock t
EmailData(m, t) ==
    [messageId |-> m.id, from |-> m.dom, internalDate |-> m.at,
     body |-> ExtractBodyContent(m.payload), fetched_timestamp |-> t]

\* get_email_details returns None also when the body cannot be extracted
EmailDetails_ExtractionRaises(m, t, get_ok) ==
    IF get_ok /\ ExtractBodyContent(m.payload) # ContentExtractionFailed
    THEN <<EmailData(m, t)>>
    ELSE None

\* what get_email_details returns: None when messages.get raised (get_ok =
\* FALSE), else <<email_data>>; extract_body_content raises nothing
EmailDetails(m, t, get_ok) == IF get_ok THEN <<EmailData(m, t)>> ELSE None

\* a batch built by inserting at the front
AppendEmail_Prepend(batch, e) == <<e>> \o batch

\* detailed_emails.append(email_details)
AppendEmail(batch, e) == Append(batch, e)

\* domain.replace('.', '_')
ReplaceDots(d) == [i \in 1..Len(d) |-> IF d[i] = "." THEN "_" ELSE d[i]]

\* batch_name = f"gmail_{domain.replace('.', '_')}"
BatchName(d) == <<"gmail_">> \o ReplaceDots(d)

\* s3_key = f"email-files/gmail-realtime/{batch_name}_{timestamp}.json"
S3Key(batch_name, t) == [name |-> batch_name, ts |-> t]

\* a copy loop that stops one email short
EmailBatch_DropLast(es) == SubSeq(es, 1, Len(es) - 1)

\* email_batch built by the copy loop of upload_emails_to_s3, as serialized
EmailBatch(es) == [i \in 1..Len(es) |-> es[i]]

\* an empty fetch reported as an error
ResultNoEmails_AsError ==
    [status |-> "error", message |-> "No new emails to process"]

\* a failed upload reported as a success
ResultUploadFailed_AsSuccess ==
    [status |-> "success", emails_processed |-> 0,
     message |-> "Failed to upload emails to S3"]

\* an error summary that carries a count
ResultUploadFailed_WithCount ==
    [status |-> "error", emails_processed |-> 0,
     message |-> "Failed to upload emails to S3"]

\* the three return values of process_domain_emails
ResultNoEmails ==
    [status |-> "success", emails_processed |-> 0,
     message |-> "No new emails to process"]

ResultUploadFailed ==
    [status |-> "error", message |-> "Failed to upload emails to S3"]

ResultUploaded(n, elapsed) ==
    [status |-> "success", emails_processed |-> n,
     processing_time |-> elapsed, message |-> "Successfully uploaded"]

\* an entry of the call history of a run
Call(name, ok) == [call |-> name, ok |-> ok]

\* metrics are logged whatever upload_emails_to_s3 returned
AfterUpload_AlwaysMetrics(upload_success) == "metrics"

\* `if not upload_success: return {...}`, else on to the metrics
AfterUpload(upload_success) == IF upload_success THEN "metrics" ELSE "return"

(* ------------------------------- Init --------------------------------- *)
InitPipeline ==
    /\ max_emails_per_run \in 1..MaxEmailsPerRun
    /\ now = 0
    /\ mailbox = {}
    /\ s3 = {}
    /\ pending = {}
    /\ processed = {}
    /\ metrics = 0
    /\ pc = "idle"
    /\ invocations = 0
    /\ di = 1
    /\ total_processed = 0
    /\ domain = None
    /\ start_time = 0
    /\ last_processed = None
    /\ query = None
    /\ messages = <<>>
    /\ listed = None
    /\ emails = <<>>
    /\ result = NoResult
    /\ puts = 0
    /\ calls = <<>>
    /\ attempted = <<>>
    /\ setup_calls = <<>>
    /\ lastFailed = [d \in Domains |-> <<>>]

\* between the calls of extract_body_content no payload is at hand
NoExtraction ==
    /\ payload = PlainHi
    /\ body_content = Unset

\* no direct-insert function is called
NoSink ==
    /\ sink = "none"
    /\ sink_emails = <<>>
    /\ sink_pc = "done"
    /\ sink_i = 1
    /\ success_count = 0
    /\ processed_count = 0
    /\ pending_files = <<>>
    /\ raw_email_files = {}
    /\ trigger_calls = 0
    /\ insert_failures = {}
    /\ sink_returned = None

\* no other source function is called
NoSource ==
    /\ source = "none"
    /\ src_clock = 0
    /\ email_ids = <<>>
    /\ max_emails = 0
    /\ src_pc = "done"
    /\ src_i = 1
    /\ src_emails = <<>>

\* the statements of the Task Control page of simple_monitoring_app
TaskQuery == "SELECT * FROM SIMPLE_TASK_STATUS"
SuspendCall == "CALL MANAGE_AUTOMATION_TASKS('SUSPEND', 'ALL')"
ResumeCall == "CALL MANAGE_AUTOMATION_TASKS('RESUME', 'ALL')"
ErrorQuery == "SELECT * FROM RECENT_ERRORS"
Statements == {TaskQuery, SuspendCall, ResumeCall, ErrorQuery}

\* the monitoring app has not run
NoMonitor ==
    /\ mon_clock = 0
    /\ conn_cache = <<>>
    /\ conns_created = 0
    /\ dead = {}
    /\ query_cache = [q \in Statements |-> <<>>]
    /\ executed = <<>>
    /\ shown = "none"
    /\ clicks = 0
    /\ gets = <<>>

\* the browser sessions of the single-email apps
Sessions == {1, 2}

\* the single-email apps have not run
NoForms ==
    /\ pe_rows = <<>>
    /\ email_summaries = {}
    /\ form_pc = [u \in Sessions |-> "idle"]
    /\ form_key = [u \in Sessions |-> <<>>]
    /\ form_email_id = [u \in Sessions |-> <<>>]
    /\ form_n = [u \in Sessions |-> 0]

\* RAW_EMAIL_FILES holds no PENDING gmail_direct row
NoDirect == uploads = <<>>

NothingBeyond == NoSource /\ NoMonitor /\ NoForms /\ NoDirect

Init ==
    /\ InitPipeline
    /\ payload_kinds = {PlainHi}
    /\ NoExtraction
    /\ NoSink
    /\ NothingBeyond

(* -------------------------- the environment --------------------------- *)
\* A run is synchronous and reads the clock, the mailbox and the store only
\* in its own calls; a message that arrives or an object that is ingested
\* in the middle of a run is seen by that run exactly as if it had happened
\* just before the run or just after it.  The environment therefore moves
\* between runs: before main(), between two domains, and after main().
BetweenRuns == pc \in {"idle", "loop"}

\* the clock advances
Tick ==
    /\ BetweenRuns
    /\ now < MaxNow
    /\ now' = now + 1
    /\ UNCHANGED <<aside, mailbox, store, pc, mainLocals, runLocals, lastFailed>>

\* a message from domain d with payload p arrives in the mailbox
Arrive(d, p) ==
    /\ BetweenRuns
    /\ Cardinality(mailbox) < MaxMsgs
    /\ mailbox' = mailbox \cup
          {[id |-> Cardinality(mailbox) + 1, dom |-> d, at |-> now, payload |-> p]}
    /\ UNCHANGED <<aside, now, store, pc, mainLocals, runLocals, lastFailed>>

\* Snowpipe and the downstream procedures ingest one delivered object into
\* PROCESSED_EMAILS
Downstream(k) ==
    /\ BetweenRuns
    /\ k \in pending
    /\ LET o == CHOOSE x \in s3 : x.key = k
       IN processed' = processed \cup
             {[id |-> o.body[i].messageId, dom |-> o.body[i].from,
               at |-> o.body[i].internalDate] : i \in 1..Len(o.body)}
    /\ pending' = pending \ {k}
    /\ UNCHANGED <<aside, now, mailbox, s3, metrics, pc, mainLocals, runLocals, lastFailed>>

(* ------------------------------ main() -------------------------------- *)
MainStart ==
    /\ pc = "idle"
    /\ invocations < MaxInvocations
    /\ invocations' = invocations + 1
    /\ di' = 1
    /\ total_processed' = 0
    /\ attempted' = <<>>
    /\ setup_calls' = <<>>
    /\ pc' = "auth"
    /\ UNCHANGED <<aside, now, mailbox, store, runLocals, lastFailed>>

\* a setup call returned: main goes on to next_pc, or returns when the call
\* failed (`if not connector....(): return`)
SetupCall(name, ok, next_pc) ==
    /\ pc' = IF ok THEN next_pc ELSE "idle"
    /\ setup_calls' = Append(setup_calls, Call(name, ok))
    /\ UNCHANGED <<aside, now, mailbox, store, invocations, di, total_processed,
                   attempted, runLocals, lastFailed>>

\* a failed authentication is tried again
AuthenticateGmail_Retries(ok) ==
    /\ pc = "auth"
    /\ Len(setup_calls) < 2
    /\ pc' = IF ok THEN "s3" ELSE "auth"
    /\ setup_calls' = Append(setup_calls, Call("authenticate_gmail", ok))
    /\ UNCHANGED <<aside, now, mailbox, store, invocations, di, total_processed,
                   attempted, runLocals, lastFailed>>

\* connector.authenticate_gmail()
AuthenticateGmail(ok) ==
    /\ pc = "auth"
    /\ SetupCall("authenticate_gmail", ok, "s3")

\* connector.setup_aws_s3()
SetupAwsS3(ok) ==
    /\ pc = "s3"
    /\ SetupCall("setup_aws_s3", ok, "snowflake")

\* connector.setup_snowflake()
SetupSnowflake(ok) ==
    /\ pc = "snowflake"
    /\ SetupCall("setup_snowflake", ok, "loop")

\* for domain in config['target_domains']: enter process_domain_emails
ProcessDomainEmails ==
    /\ pc = "loop"
    /\ di <= Len(TargetDomains)
    /\ domain' = TargetDomains[di]
    /\ start_time' = now
    /\ last_processed' = None
    /\ query' = None
    /\ messages' = <<>>
    /\ listed' = None
    /\ emails' = <<>>
    /\ result' = NoResult
    /\ puts' = 0
    /\ calls' = <<>>
    /\ attempted' = Append(attempted, TargetDomains[di])
    /\ pc' = "watermark"
    /\ UNCHANGED <<aside, now, mailbox, store, invocations, di, total_processed,
                   setup_calls, lastFailed>>

\* the loop is exhausted: the automation cycle is complete
MainEnd ==
    /\ pc = "loop"
    /\ di > Len(TargetDomains)
    /\ pc' = "idle"
    /\ di' = 1
    /\ total_processed' = 0
    /\ attempted' = <<>>
    /\ setup_calls' = <<>>
    /\ UNCHANGED <<aside, now, mailbox, store, invocations, runLocals, lastFailed>>

\* main returns at the first domain whose result is an error
MainHandleResult_AbortOnError ==
    /\ pc = "return"
    /\ total_processed' = IF result.status = "success"
                          THEN total_processed + result.emails_processed
                          ELSE total_processed
    /\ di' = IF result.status = "success" THEN di + 1 ELSE 1
    /\ pc' = IF result.status = "success" THEN "loop" ELSE "idle"
    /\ domain' = None
    /\ start_time' = 0
    /\ last_processed' = None
    /\ query' = None
    /\ messages' = <<>>
    /\ listed' = None
    /\ emails' = <<>>
    /\ result' = NoResult
    /\ puts' = 0
    /\ calls' = <<>>
    /\ UNCHANGED <<aside, now, mailbox, store, invocations, attempted, setup_calls,
                   lastFailed>>

\* main: the result of one domain is logged and counted
MainHandleResult ==
    /\ pc = "return"
    /\ total_processed' = IF result.status = "success"
                          THEN total_processed + result.emails_processed
                          ELSE total_processed
    /\ di' = di + 1
    /\ pc' = "loop"
    \* the locals of the call that returned are gone
    /\ domain' = None
    /\ start_time' = 0
    /\ last_processed' = None
    /\ query' = None
    /\ messages' = <<>>
    /\ listed' = None
    /\ emails' = <<>>
    /\ result' = NoResult
    /\ puts' = 0
    /\ calls' = <<>>
    /\ UNCHANGED <<aside, now, mailbox, store, invocations, attempted, setup_calls,
                   lastFailed>>

(* --------------------- process_domain_emails ------------------------- *)
\* fetch_emails_from_domain: last_processed = self.get_last_processed_timestamp();
\* the query fails (ok = FALSE) and the except branch returns None
GetLastProcessedTimestamp(ok) ==
    /\ pc = "watermark"
    /\ last_processed' = IF ok THEN LastProcessedTimestamp(processed, now) ELSE None
    /\ pc' = "list"
    /\ calls' = Append(calls, Call("watermark", ok))
    /\ UNCHANGED <<aside, now, mailbox, store, mainLocals, domain, start_time, query,
                   messages, listed, emails, result, puts, lastFailed>>

\* fetch_emails_from_domain: the query is built and messages.list is called;
\* when the call raises, the except branches return []
ListMessages(ok) ==
    /\ pc = "list"
    /\ LET q == BuildQuery(domain, last_processed)
           l == GmailList(mailbox, q, max_emails_per_run)
       IN /\ query' = <<q>>
          /\ listed' = IF ok THEN <<l>> ELSE None
          /\ messages' = IF ok THEN l ELSE <<>>
          /\ pc' = IF ok /\ l # <<>> THEN "details" ELSE "fetched"
    /\ emails' = <<>>
    /\ calls' = Append(calls, Call("list", ok))
    /\ UNCHANGED <<aside, now, mailbox, store, mainLocals, domain, start_time,
                   last_processed, result, puts, lastFailed>>

\* fetch_emails_from_domain: one iteration of the loop over messages;
\* get_email_details returns None when messages.get or the extraction raises
GetEmailDetails(ok) ==
    /\ pc = "details"
    /\ LET m == CHOOSE x \in mailbox : x.id = Head(messages)
           email_details == EmailDetails(m, now, ok)
       IN emails' = IF email_details # None
                    THEN AppendEmail(emails, email_details[1])
                    ELSE emails
    /\ messages' = Tail(messages)
    /\ calls' = Append(calls, Call("get", ok))
    /\ pc' = IF Tail(messages) = <<>> THEN "fetched" ELSE "details"
    /\ UNCHANGED <<aside, now, mailbox, store, mainLocals, domain, start_time,
                   last_processed, query, listed, result, puts, lastFailed>>

\* process_domain_emails: if not emails: return success with 0
ReturnNoEmails ==
    /\ pc = "fetched"
    /\ emails = <<>>
    /\ result' = ResultNoEmails
    /\ pc' = "return"
    /\ lastFailed' = [lastFailed EXCEPT ![domain] = <<>>]
    /\ UNCHANGED <<aside, now, mailbox, store, mainLocals, domain, start_time,
                   last_processed, query, messages, listed, emails, puts, calls>>

\* process_domain_emails: upload_emails_to_s3(emails, batch_name); put_object
\* raises (ok = FALSE), upload returns False and the run returns an error
UploadEmailsToS3(ok) ==
    /\ pc = "fetched"
    /\ emails # <<>>
    /\ LET key == S3Key(BatchName(domain), now)
           body == EmailBatch(emails)
       IN /\ s3' = IF ok
                   THEN {o \in s3 : o.key # key} \cup {[key |-> key, body |-> body]}
                   ELSE s3
          /\ pending' = IF ok THEN pending \cup {key} ELSE pending
          /\ lastFailed' = [lastFailed EXCEPT ![domain] = IF ok THEN <<>> ELSE body]
    /\ puts' = puts + 1
    /\ calls' = Append(calls, Call("put", ok))
    /\ result' = IF ok THEN result ELSE ResultUploadFailed
    /\ pc' = AfterUpload(ok)
    /\ UNCHANGED <<aside, now, mailbox, processed, metrics, mainLocals, domain, start_time,
                   last_processed, query, messages, listed, emails>>

\* the metrics step also inserts the batch into PROCESSED_EMAILS
LogProcessingMetrics_AdvancesWatermark(ok) ==
    /\ pc = "metrics"
    /\ metrics' = IF ok THEN metrics + 1 ELSE metrics
    /\ processed' = processed \cup
          {[id |-> emails[i].messageId, dom |-> emails[i].from,
            at |-> emails[i].internalDate] : i \in 1..Len(emails)}
    /\ result' = ResultUploaded(Len(emails), now - start_time)
    /\ calls' = Append(calls, Call("metrics", ok))
    /\ pc' = "return"
    /\ UNCHANGED <<aside, now, mailbox, s3, pending, mainLocals, domain,
                   start_time, last_processed, query, messages, listed, emails,
                   puts, lastFailed>>

\* a failed metrics insert turns the result into an error
LogProcessingMetrics_Propagates(ok) ==
    /\ pc = "metrics"
    /\ metrics' = IF ok THEN metrics + 1 ELSE metrics
    /\ result' = IF ok THEN ResultUploaded(Len(emails), now - start_time)
                  ELSE [status |-> "error", message |-> "Error logging metrics"]
    /\ calls' = Append(calls, Call("metrics", ok))
    /\ pc' = "return"
    /\ UNCHANGED <<aside, now, mailbox, s3, pending, processed, mainLocals, domain,
                   start_time, last_processed, query, messages, listed, emails,
                   puts, lastFailed>>

\* process_domain_emails: log_processing_metrics (its failure is caught and
\* logged), then the success result is returned
LogProcessingMetrics(ok) ==
    /\ pc = "metrics"
    /\ metrics' = IF ok THEN metrics + 1 ELSE metrics
    /\ result' = ResultUploaded(Len(emails), now - start_time)
    /\ calls' = Append(calls, Call("metrics", ok))
    /\ pc' = "return"
    /\ UNCHANGED <<aside, now, mailbox, s3, pending, processed, mainLocals, domain,
                   start_time, last_processed, query, messages, listed, emails,
                   puts, lastFailed>>

(* ------------------------------- Next --------------------------------- *)
Next ==
    \/ Tick
    \/ \E d \in Domains, p \in payload_kinds : Arrive(d, p)
    \/ \E k \in pending : Downstream(k)
    \/ MainStart
    \/ \E ok \in BOOLEAN : AuthenticateGmail(ok)
    \/ \E ok \in BOOLEAN : SetupAwsS3(ok)
    \/ \E ok \in BOOLEAN : SetupSnowflake(ok)
    \/ ProcessDomainEmails
    \/ MainEnd
    \/ MainHandleResult
    \/ \E ok \in BOOLEAN : GetLastProcessedTimestamp(ok)
    \/ \E ok \in BOOLEAN : ListMessages(ok)
    \/ \E ok \in BOOLEAN : GetEmailDetails(ok)
    \/ ReturnNoEmails
    \/ \E ok \in BOOLEAN : UploadEmailsToS3(ok)
    \/ \E ok \in BOOLEAN : LogProcessingMetrics(ok)

Spec == Init /\ [][Next]_vars

(* ============ the pipeline on readable and unreadable messages ======== *)
\* the mailbox receives messages whose text/plain body decodes and messages
\* whose body data cannot be decoded
InitFetch ==
    /\ InitPipeline
    /\ payload_kinds = {PlainHi, PlainBad}
    /\ NoExtraction
    /\ NoSink
    /\ NothingBeyond

SpecFetch == InitFetch /\ [][Next]_vars

(* ===================== the body extractor on its own ================== *)
pipeline == <<now, mailbox, store, pc, mainLocals, runLocals, lastFailed>>

\* one call of extract_body_content on any payload tree
InitBody ==
    /\ InitPipeline
    /\ payload_kinds = {PlainHi}
    /\ payload \in Trees(MaxDepth)
    /\ body_content = Unset
    /\ NoSink
    /\ NothingBeyond

ExtractBody ==
    /\ body_content = Unset
    /\ body_content' = ExtractBodyContent(payload)
    /\ UNCHANGED <<max_emails_per_run, payload_kinds, payload, sinkVars, beyond, pipeline>>

NextBody == ExtractBody

SpecBody == InitBody /\ [][NextBody]_vars

RECURSIVE HasPlain(_)
\* some part of the tree, at any depth, is of type text/plain
HasPlain(p) ==
    \/ p.mimeType = "text/plain"
    \/ /\ p.parts # None
       /\ \E i \in 1..Len(p.parts[1]) : HasPlain(p.parts[1][i])

RECURSIVE FirstPlainData(_), FirstPlainIn(_, _)
\* the data of the first text/plain part with data in depth-first order
FirstPlainData(p) ==
    IF p.mimeType = "text/plain" /\ p.data # None THEN p.data
    ELSE IF p.parts # None THEN FirstPlainIn(p.parts[1], 1)
    ELSE None

FirstPlainIn(parts, i) ==
    IF i > Len(parts) THEN None
    ELSE LET d == FirstPlainData(parts[i])
         IN IF d # None THEN d ELSE FirstPlainIn(parts, i + 1)

\* the data that encode the non-empty texts of the model
EncodedTexts == {B64Encode(Utf8Encode(t)) : t \in Texts \ {<<>>}}

Original(d) == CHOOSE t \in Texts : B64Encode(Utf8Encode(t)) = d

C13_FirstPlainDecoded ==
    (body_content # Unset /\ FirstPlainData(payload) \in {<<d>> : d \in EncodedTexts}) =>
        body_content = TextContent(Original(FirstPlainData(payload)[1]))

(* ======================= the direct-insert sinks ====================== *)
\* insert_emails_to_snowflake (gmail_workarounds) and
\* process_gmail_emails_direct (gmail_to_snowflake_direct) write the batch to
\* RAW_EMAIL_FILES row by row.  Both open their connection without an
\* autocommit argument and never call commit(): under the connector's
\* default every INSERT that executes is committed at once.
Sinks == {"insert_emails_to_snowflake", "process_gmail_emails_direct"}

\* the batches handed to a sink: emails 1..n
Batches == {[i \in 1..n |-> i] : n \in 0..MaxBatch}

\* what a call of a sink leaves alone
besideSinks == <<max_emails_per_run, payload_kinds, payload, body_content, beyond,
                pipeline>>

InitSinks ==
    /\ InitPipeline
    /\ payload_kinds = {PlainHi}
    /\ NoExtraction
    /\ NothingBeyond
    /\ sink \in Sinks
    /\ sink_emails \in Batches
    /\ sink_pc = "start"
    /\ sink_i = 1
    /\ success_count = 0
    /\ processed_count = 0
    /\ pending_files = <<>>
    /\ raw_email_files = {}
    /\ trigger_calls = 0
    /\ insert_failures = {}
    /\ sink_returned = None

\* the call returns v
SinkReturn(v) ==
    /\ sink_returned' = <<v>>
    /\ sink_pc' = "done"

\* insert_emails_to_snowflake: conn = get_snowflake_connection();
\* if not conn: return False
InsertConnect(ok) ==
    /\ sink = "insert_emails_to_snowflake"
    /\ sink_pc = "start"
    /\ IF ok THEN sink_pc' = "insert" /\ sink_returned' = sink_returned
             ELSE SinkReturn(FALSE)
    /\ success_count' = 0
    /\ UNCHANGED <<besideSinks, sink, sink_emails, sink_i, processed_count, pending_files,
                   raw_email_files, trigger_calls, insert_failures>>

\* a failed INSERT is skipped and the loop goes on
InsertEmail_SkipsFailure(ok) ==
    /\ sink = "insert_emails_to_snowflake"
    /\ sink_pc = "insert"
    /\ sink_i <= Len(sink_emails)
    /\ raw_email_files' = IF ok THEN raw_email_files \cup {sink_emails[sink_i]}
                          ELSE raw_email_files
    /\ success_count' = IF ok THEN success_count + 1 ELSE success_count
    /\ insert_failures' = IF ok THEN insert_failures
                          ELSE insert_failures \cup {sink_emails[sink_i]}
    /\ sink_i' = sink_i + 1
    /\ UNCHANGED <<besideSinks, sink, sink_emails, sink_pc, processed_count, pending_files,
                   trigger_calls, sink_returned>>

\* insert_emails_to_snowflake: one iteration of `for email in emails`; an
\* INSERT that raises (ok = FALSE) ends the call in the except branch
InsertEmail(ok) ==
    /\ sink = "insert_emails_to_snowflake"
    /\ sink_pc = "insert"
    /\ sink_i <= Len(sink_emails)
    /\ IF ok
       THEN /\ raw_email_files' = raw_email_files \cup {sink_emails[sink_i]}
            /\ success_count' = success_count + 1
            /\ sink_i' = sink_i + 1
            /\ UNCHANGED <<insert_failures, sink_pc, sink_returned>>
       ELSE /\ insert_failures' = insert_failures \cup {sink_emails[sink_i]}
            /\ SinkReturn(FALSE)
            /\ UNCHANGED <<raw_email_files, success_count, sink_i>>
    /\ UNCHANGED <<besideSinks, sink, sink_emails, processed_count, pending_files,
                   trigger_calls>>

\* insert_emails_to_snowflake: after the loop, CALL PROCESS_PENDING_EMAILS();
\* return True, or False when the CALL raises
TriggerProcessing(ok) ==
    /\ sink = "insert_emails_to_snowflake"
    /\ sink_pc = "insert"
    /\ sink_i > Len(sink_emails)
    /\ trigger_calls' = trigger_calls + 1
    /\ SinkReturn(ok)
    /\ UNCHANGED <<besideSinks, sink, sink_emails, sink_i, success_count, processed_count,
                   pending_files, raw_email_files, insert_failures>>

\* what a statement of process_gmail_emails_direct on RAW_EMAIL_FILES leaves alone
besideDirect == <<max_emails_per_run, payload_kinds, payload, body_content, pipeline,
                 srcVars, monVars, formVars>>

\* the row this run inserts for the email: file_path 'gmail_direct/...',
\* processing_status 'PENDING'
OwnRow(email) == [run |-> 1, email |-> email]

\* process_gmail_emails_direct, step 1: if not authenticate(): return False
DirectAuthenticate(ok) ==
    /\ sink = "process_gmail_emails_direct"
    /\ sink_pc = "start"
    /\ IF ok THEN sink_pc' = "connect" /\ sink_returned' = sink_returned
             ELSE SinkReturn(FALSE)
    /\ UNCHANGED <<besideSinks, sink, sink_emails, sink_i, success_count, processed_count,
                   pending_files, raw_email_files, trigger_calls, insert_failures>>

\* step 2: if not connect_snowflake(): return False
DirectConnect(ok) ==
    /\ sink = "process_gmail_emails_direct"
    /\ sink_pc = "connect"
    /\ IF ok THEN sink_pc' = "fetch" /\ sink_returned' = sink_returned
             ELSE SinkReturn(FALSE)
    /\ UNCHANGED <<besideSinks, sink, sink_emails, sink_i, success_count, processed_count,
                   pending_files, raw_email_files, trigger_calls, insert_failures>>

\* step 3: the emails are fetched; if not emails: return False
DirectFetch ==
    /\ sink = "process_gmail_emails_direct"
    /\ sink_pc = "fetch"
    /\ IF sink_emails = <<>> THEN SinkReturn(FALSE)
       ELSE sink_pc' = "insert" /\ sink_returned' = sink_returned
    /\ processed_count' = 0
    /\ UNCHANGED <<besideSinks, sink, sink_emails, sink_i, success_count, pending_files,
                   raw_email_files, trigger_calls, insert_failures>>

\* step 4: one iteration of `for i, email in enumerate(emails, 1)`; an INSERT
\* that raises is printed by the except of that iteration and the loop goes on
DirectInsert(ok) ==
    /\ sink = "process_gmail_emails_direct"
    /\ sink_pc = "insert"
    /\ sink_i <= Len(sink_emails)
    /\ raw_email_files' = IF ok THEN raw_email_files \cup {sink_emails[sink_i]}
                          ELSE raw_email_files
    /\ uploads' = IF ok THEN Append(uploads, OwnRow(sink_emails[sink_i])) ELSE uploads
    /\ processed_count' = IF ok THEN processed_count + 1 ELSE processed_count
    /\ insert_failures' = IF ok THEN insert_failures
                          ELSE insert_failures \cup {sink_emails[sink_i]}
    /\ sink_i' = sink_i + 1
    /\ UNCHANGED <<besideDirect, sink, sink_emails, sink_pc, success_count, pending_files,
                   trigger_calls, sink_returned>>

\* ORDER BY upload_timestamp DESC: the rows, the last inserted first
NewestFirst(rows) == [i \in 1..Len(rows) |-> rows[Len(rows) + 1 - i]]

\* step 5: if processed_count > 0, the PENDING rows are selected, LIMIT
\* processed_count; when the SELECT raises the except prints and the call
\* returns True
DirectSelectPending(ok) ==
    /\ sink = "process_gmail_emails_direct"
    /\ sink_pc = "insert"
    /\ sink_i > Len(sink_emails)
    /\ processed_count > 0
    /\ IF ok
       THEN /\ pending_files' = Take(NewestFirst(uploads), processed_count)
            /\ sink_pc' = "process"
            /\ sink_returned' = sink_returned
       ELSE /\ pending_files' = pending_files
            /\ SinkReturn(TRUE)
    /\ UNCHANGED <<besideSinks, sink, sink_emails, sink_i, success_count, processed_count,
                   raw_email_files, trigger_calls, insert_failures>>

\* step 5: CALL PROCESS_EMAIL_FORMAT_ENHANCED for one selected row; a CALL that
\* raises is printed and the loop goes on
DirectProcess(ok) ==
    /\ sink = "process_gmail_emails_direct"
    /\ sink_pc = "process"
    /\ pending_files # <<>>
    /\ trigger_calls' = trigger_calls + 1
    /\ pending_files' = Tail(pending_files)
    /\ UNCHANGED <<besideSinks, sink, sink_emails, sink_pc, sink_i, success_count,
                   processed_count, raw_email_files, insert_failures, sink_returned>>

\* return True: after the selected rows, or at once when no INSERT succeeded
DirectReturn ==
    /\ sink = "process_gmail_emails_direct"
    /\ \/ sink_pc = "process" /\ pending_files = <<>>
       \/ sink_pc = "insert" /\ sink_i > Len(sink_emails) /\ processed_count = 0
    /\ SinkReturn(TRUE)
    /\ UNCHANGED <<besideSinks, sink, sink_emails, sink_i, success_count, processed_count,
                   pending_files, raw_email_files, trigger_calls, insert_failures>>

NextSinks ==
    \/ \E ok \in BOOLEAN : InsertConnect(ok)
    \/ \E ok \in BOOLEAN : InsertEmail(ok)
    \/ \E ok \in BOOLEAN : TriggerProcessing(ok)
    \/ \E ok \in BOOLEAN : DirectAuthenticate(ok)
    \/ \E ok \in BOOLEAN : DirectConnect(ok)
    \/ DirectFetch
    \/ \E ok \in BOOLEAN : DirectInsert(ok)
    \/ \E ok \in BOOLEAN : DirectSelectPending(ok)
    \/ \E ok \in BOOLEAN : DirectProcess(ok)
    \/ DirectReturn

SpecSinks == InitSinks /\ [][NextSinks]_vars

\* a run of process_gmail_emails_direct beside other runs of it: an earlier
\* run (0) may have left a row PENDING, another run (2) inserts its rows while
\* this one (1) is under way
InitDirect ==
    /\ InitPipeline
    /\ payload_kinds = {PlainHi}
    /\ NoExtraction
    /\ NoSource
    /\ NoMonitor
    /\ NoForms
    /\ uploads \in {<<>>, <<[run |-> 0, email |-> 1]>>}
    /\ sink = "process_gmail_emails_direct"
    /\ sink_emails \in Batches
    /\ sink_pc = "start"
    /\ sink_i = 1
    /\ success_count = 0
    /\ processed_count = 0
    /\ pending_files = <<>>
    /\ raw_email_files = {}
    /\ trigger_calls = 0
    /\ insert_failures = {}
    /\ sink_returned = None

\* the rows of uploads that run r inserted
RowsOf(r) == {i \in 1..Len(uploads) : uploads[i].run = r}

\* step 4 of another run of the processor: its next INSERT
OtherRunInserts ==
    /\ sink_pc # "done"
    /\ Cardinality(RowsOf(2)) < MaxOther
    /\ uploads' = Append(uploads, [run |-> 2, email |-> Cardinality(RowsOf(2)) + 1])
    /\ UNCHANGED <<besideDirect, sinkVars>>

NextDirect ==
    \/ \E ok \in BOOLEAN : DirectAuthenticate(ok)
    \/ \E ok \in BOOLEAN : DirectConnect(ok)
    \/ DirectFetch
    \/ \E ok \in BOOLEAN : DirectInsert(ok)
    \/ \E ok \in BOOLEAN : DirectSelectPending(ok)
    \/ \E ok \in BOOLEAN : DirectProcess(ok)
    \/ DirectReturn
    \/ OtherRunInserts

SpecDirect == InitDirect /\ [][NextDirect]_vars

\* C27: the rows step 5 selected for PROCESS_EMAIL_FORMAT_ENHANCED are rows
\* this run inserted in step 4.
C27_ProcessesOwnRows ==
    sink_pc = "process" => \A i \in 1..Len(pending_files) : pending_files[i].run = 1

\* C17: when a call of a sink is over, either every email of the batch is
\* committed or none is, and none is when an INSERT of the batch failed
C17_AllOrNothing ==
    sink_pc = "done" =>
        /\ raw_email_files \in {{}, Range(sink_emails)}
        /\ (insert_failures # {} => raw_email_files = {})

\* C18: insert_emails_to_snowflake issues CALL PROCESS_PENDING_EMAILS at most
\* once, and only when every email of the batch has been inserted; a call
\* that returned True has issued it; after a failed INSERT it has not been
\* issued and the call has returned False
C18_TriggerAfterAllInserts ==
    sink = "insert_emails_to_snowflake" =>
        /\ trigger_calls <= 1
        /\ (trigger_calls = 1 =>
                /\ raw_email_files = Range(sink_emails)
                /\ success_count = Len(sink_emails)
                /\ insert_failures = {}
                /\ sink_pc = "done")
        /\ (sink_returned = <<TRUE>> => trigger_calls = 1)
        /\ (insert_failures # {} =>
                /\ trigger_calls = 0
                /\ sink_returned = <<FALSE>>)

C18_Witness ==
    /\ sink = "insert_emails_to_snowflake"
    /\ sink_returned = <<TRUE>>
    /\ trigger_calls = 1
    /\ Cardinality(raw_email_files) = MaxBatch

(* ========================= the source variants ======================== *)
\* The functions that build a batch of emails: the Gmail API adapter of the
\* pipeline above, the IMAP adapters fetch_emails_via_imap
\* (immediate_gmail_integration) and test_imap_integration
\* (gmail_workarounds), and the generators generate_live_gmail_emails,
\* fetch_emails_from_test_service and simulate_gmail_fetch.
Generators == {"generate_live_gmail_emails", "fetch_emails_from_test_service",
               "simulate_gmail_fetch"}
ImapAdapters == {"fetch_emails_via_imap", "test_imap_integration"}
Sources == Generators \cup ImapAdapters \cup {"fetch_emails_from_domain"}

RECURSIVE Ascending(_)
\* the numbers of S in ascending order
Ascending(S) ==
    IF S = {} THEN <<>>
    ELSE LET n == CHOOSE x \in S : \A y \in S : x <= y
         IN <<n>> \o Ascending(S \ {n})

\* mail.search(...)[0].split(): message sequence numbers, each once, ascending
SearchResults == {Ascending(S) : S \in SUBSET (1..MaxIds)}

Digit(d) == <<"0", "1", "2", "3", "4", "5", "6", "7", "8", "9">>[d + 1]

RECURSIVE Decimal(_)
\* str(n) / bytes.decode() of a number: its decimal digits
Decimal(n) == IF n < 10 THEN <<Digit(n)>> ELSE Decimal(n \div 10) \o <<Digit(n % 10)>>

\* strftime('%Y%m%d_%H%M%S'): fixed width, one value per second
Stamp(t) == <<Digit((t \div 10) % 10), Digit(t % 10)>>

\* strftime('%H%M%S'): the time of day, the same every DayLength seconds
TimeOfDay(t) == Stamp(t % DayLength)

\* s[-n:] for n >= 0 as Python evaluates it: -0 is 0, so s[-0:] is all of s
LastOf(s, n) ==
    IF n = 0 THEN s
    ELSE SubSeq(s, (IF Len(s) > n THEN Len(s) - n ELSE 0) + 1, Len(s))

\* both simulated emails carry the same prefix
SimulatedPrefix_Same(k) == "gmail_live_"

\* simulate_gmail_fetch: the prefix of the id of the k-th email
SimulatedPrefix(k) == IF k = 1 THEN "gmail_live_" ELSE "gmail_urgent_"

\* the ids the three generators and the IMAP adapters build
LiveGmailId(t, k) == <<"live_gmail_">> \o Stamp(t) \o <<"_00", Digit(k)>>
LiveDemoId(t, k) == <<"live_demo_">> \o Stamp(t) \o <<"_", Digit(k)>>
SimulatedId(t, k) == <<SimulatedPrefix(k)>> \o TimeOfDay(t)
ImapId(email_id) == <<"imap_">> \o Decimal(email_id)

\* what a call of a source function leaves alone
besideSources == <<max_emails_per_run, payload_kinds, payload, body_content, sinkVars,
                  pipeline, monVars, formVars, directVars>>

InitSources ==
    /\ InitPipeline
    /\ payload_kinds = {PlainHi}
    /\ NoExtraction
    /\ NoSink
    /\ source \in Sources
    /\ src_clock = 0
    /\ IF source \in ImapAdapters
       THEN email_ids \in SearchResults /\ src_pc = "start"
       ELSE email_ids = <<>> /\ src_pc = IF source \in Generators THEN "start" ELSE "done"
    /\ IF source = "fetch_emails_via_imap"
       THEN max_emails \in 0..MaxEmails
       ELSE max_emails = 0
    /\ src_i = 1
    /\ src_emails = <<>>
    /\ NoMonitor
    /\ NoForms
    /\ NoDirect

\* the clock advances while a generator runs (the only sources that read it
\* for their ids)
SrcTick ==
    /\ source \in Generators
    /\ src_pc # "done"
    /\ src_clock < MaxClock
    /\ src_clock' = src_clock + 1
    /\ UNCHANGED <<besideSources, source, email_ids, max_emails, src_pc, src_i, src_emails>>

\* generate_live_gmail_emails: current_time is read once, then the list of
\* three emails is built
GenerateLiveGmailEmails ==
    /\ source = "generate_live_gmail_emails"
    /\ src_pc = "start"
    /\ src_emails' = [k \in 1..3 |-> LiveGmailId(src_clock, k)]
    /\ src_pc' = "done"
    /\ UNCHANGED <<besideSources, source, src_clock, email_ids, max_emails, src_i>>

\* fetch_emails_from_test_service: the next of the three dicts of the list is
\* built; each reads datetime.now() for its id
TestServiceEmail ==
    /\ source = "fetch_emails_from_test_service"
    /\ src_pc = "start"
    /\ src_emails' = Append(src_emails, LiveDemoId(src_clock, src_i))
    /\ src_i' = src_i + 1
    /\ src_pc' = IF src_i = 3 THEN "done" ELSE "start"
    /\ UNCHANGED <<besideSources, source, src_clock, email_ids, max_emails>>

\* simulate_gmail_fetch: the next of the two dicts of the list is built; each
\* reads datetime.now() for its id
SimulatedEmail ==
    /\ source = "simulate_gmail_fetch"
    /\ src_pc = "start"
    /\ src_emails' = Append(src_emails, SimulatedId(src_clock, src_i))
    /\ src_i' = src_i + 1
    /\ src_pc' = IF src_i = 2 THEN "done" ELSE "start"
    /\ UNCHANGED <<besideSources, source, src_clock, email_ids, max_emails>>

\* fetch_outcomes of mail.fetch: status OK, another status, or an exception
FetchOutcomes == {"OK", "NO", "raises"}

\* fetch_emails_via_imap: the ids the loop visits
ImapSelected == LastOf(email_ids, max_emails)

\* fetch_emails_via_imap: connect, login, select and search; a status other
\* than OK or an exception returns []
ImapSearch(ok) ==
    /\ source = "fetch_emails_via_imap"
    /\ src_pc = "start"
    /\ src_pc' = IF ok THEN "fetch" ELSE "done"
    /\ UNCHANGED <<besideSources, source, src_clock, email_ids, max_emails, src_i, src_emails>>

\* fetch_emails_via_imap: one iteration of the loop; a message whose fetch is
\* not OK or raises is skipped
ImapFetch(outcome) ==
    /\ source = "fetch_emails_via_imap"
    /\ src_pc = "fetch"
    /\ src_i <= Len(ImapSelected)
    /\ src_emails' = IF outcome = "OK"
                     THEN Append(src_emails, ImapId(ImapSelected[src_i]))
                     ELSE src_emails
    /\ src_i' = src_i + 1
    /\ UNCHANGED <<besideSources, source, src_clock, email_ids, max_emails, src_pc>>

\* fetch_emails_via_imap: mail.logout() and return emails
ImapLogout ==
    /\ source = "fetch_emails_via_imap"
    /\ src_pc = "fetch"
    /\ src_i > Len(ImapSelected)
    /\ src_pc' = "done"
    /\ UNCHANGED <<besideSources, source, src_clock, email_ids, max_emails, src_i, src_emails>>

\* test_imap_integration: the ids the loop visits
TestImapSelected == LastOf(email_ids, LastFive)

\* test_imap_integration: connect, login, select and search; no match, a
\* status other than OK or an exception returns []
TestImapSearch(ok) ==
    /\ source = "test_imap_integration"
    /\ src_pc = "start"
    /\ src_pc' = IF ok /\ email_ids # <<>> THEN "fetch" ELSE "done"
    /\ UNCHANGED <<besideSources, source, src_clock, email_ids, max_emails, src_i, src_emails>>

\* test_imap_integration: one iteration of the loop; a fetch that is not OK is
\* skipped, one that raises ends the function with []
TestImapFetch(outcome) ==
    /\ source = "test_imap_integration"
    /\ src_pc = "fetch"
    /\ src_i <= Len(TestImapSelected)
    /\ src_emails' = CASE outcome = "OK" -> Append(src_emails, ImapId(TestImapSelected[src_i]))
                        [] outcome = "NO" -> src_emails
                        [] OTHER -> <<>>
    /\ src_i' = src_i + 1
    /\ src_pc' = IF outcome = "raises" THEN "done" ELSE "fetch"
    /\ UNCHANGED <<besideSources, source, src_clock, email_ids, max_emails>>

\* test_imap_integration: mail.logout() and return emails
TestImapLogout ==
    /\ source = "test_imap_integration"
    /\ src_pc = "fetch"
    /\ src_i > Len(TestImapSelected)
    /\ src_pc' = "done"
    /\ UNCHANGED <<besideSources, source, src_clock, email_ids, max_emails, src_i, src_emails>>

\* the Gmail API adapter is the pipeline of the first part
GmailApi ==
    /\ source = "fetch_emails_from_domain"
    /\ Next

NextSources ==
    \/ SrcTick
    \/ GenerateLiveGmailEmails
    \/ TestServiceEmail
    \/ SimulatedEmail
    \/ \E ok \in BOOLEAN : ImapSearch(ok)
    \/ \E outcome \in FetchOutcomes : ImapFetch(outcome)
    \/ ImapLogout
    \/ \E ok \in BOOLEAN : TestImapSearch(ok)
    \/ \E outcome \in FetchOutcomes : TestImapFetch(outcome)
    \/ TestImapLogout
    \/ GmailApi

SpecSources == InitSources /\ [][NextSources]_vars

\* C24: within one batch no two messages carry the same id, for every source
\* variant: the generators and the IMAP adapters (ids of src_emails) and the
\* Gmail API adapter (messageId of emails), whatever the clock reads while the
\* batch is built.
C24_IdsUniqueWithinBatch ==
    /\ \A i, j \in 1..Len(src_emails) : src_emails[i] = src_emails[j] => i = j
    /\ \A i, j \in 1..Len(emails) : emails[i].messageId = emails[j].messageId => i = j

\* simulate_gmail_fetch has built both emails within the same second
C24_Witness ==
    /\ source = "simulate_gmail_fetch"
    /\ src_pc = "done"
    /\ src_emails = <<SimulatedId(0, 1), SimulatedId(0, 2)>>

\* C25: fetch_emails_via_imap returns at most max_emails messages, taken from
\* the last max_emails ids of the search result in server order.
C25_AtMostMaxEmails ==
    (source = "fetch_emails_via_imap" /\ src_pc = "done")
        => /\ Len(src_emails) <= max_emails
           /\ \A i \in 1..Len(src_emails) :
                  \E k \in 1..Len(email_ids) :
                      /\ k > Len(email_ids) - max_emails
                      /\ src_emails[i] = ImapId(email_ids[k])

(* ========================= the monitoring app ========================= *)
\* simple_monitoring_app: the Task Control page. One script run is one step:
\* Streamlit runs the script from top to bottom on every click.
besideMonitor == <<max_emails_per_run, payload_kinds, payload, body_content, sinkVars,
                  pipeline, srcVars, formVars, directVars>>

InitMonitor ==
    /\ InitPipeline
    /\ payload_kinds = {PlainHi}
    /\ NoExtraction
    /\ NoSink
    /\ NoSource
    /\ NoMonitor
    /\ NoForms
    /\ NoDirect

\* the state a script run starts from
App == [conn_cache |-> conn_cache, created |-> conns_created, query_cache |-> query_cache,
        executed |-> executed, gets |-> <<>>, conn |-> <<>>, stopped |-> FALSE,
        raised |-> FALSE, shown |-> "none"]

\* init_connection under @st.cache_resource: the cached connection, or a new
\* one that is then cached; when connect raises, st.error and st.stop() end the
\* script run and nothing is cached
InitConnection(a, connect_ok) ==
    IF a.conn_cache # <<>> THEN [a EXCEPT !.conn = a.conn_cache]
    ELSE IF connect_ok
         THEN [a EXCEPT !.created = @ + 1, !.conn_cache = <<a.created + 1>>,
                        !.conn = <<a.created + 1>>]
         ELSE [a EXCEPT !.conn = <<>>, !.stopped = TRUE]

\* the cached connection is returned without the probe
GetFreshConnection_NoProbe(a, connect_ok) == InitConnection(a, connect_ok)

\* get_fresh_connection: the connection of init_connection is probed with
\* SELECT CURRENT_USER(); when the probe raises, the resource cache is cleared
\* and init_connection is called again
GetFreshConnection(a, connect_ok) ==
    LET first == InitConnection(a, connect_ok)
    IN IF first.stopped THEN first
       ELSE IF first.conn[1] \notin dead THEN first
       ELSE InitConnection([first EXCEPT !.conn_cache = <<>>], connect_ok)

\* what a call of get_fresh_connection found and gave back
Observed(a, b) ==
    [cached |-> a.conn_cache, returned |-> b.conn,
     alive |-> b.conn # <<>> /\ b.conn[1] \notin dead,
     opened |-> b.created - a.created]

\* @st.cache_data(ttl=30): an entry of this statement younger than the ttl
Hit(a, q) == a.query_cache[q] # <<>> /\ mon_clock - a.query_cache[q][1] < QueryTtl

\* run_query under @st.cache_data(ttl=30): a hit returns the cached rows and
\* the body does not run; on a miss the body runs the statement on the
\* connection of get_fresh_connection and its rows are cached, an exception
\* is not
RunQuery(a, q, connect_ok, exec_ok) ==
    IF Hit(a, q) THEN a
    ELSE LET got == GetFreshConnection(a, connect_ok)
             b == [got EXCEPT !.gets = Append(@, Observed(a, got))]
         IN IF b.stopped THEN b
            ELSE IF exec_ok
                 THEN [b EXCEPT !.query_cache[q] = <<mon_clock>>,
                                !.executed = IF q \in {SuspendCall, ResumeCall}
                                             THEN Append(@, q) ELSE @]
                 ELSE [b EXCEPT !.raised = TRUE]

\* show_task_control in a script run in which button ("stop", "start" or
\* "none") was clicked; the statements of failing raise when executed
ShowTaskControl(a, button, connect_ok, failing) ==
    LET t == RunQuery(a, TaskQuery, connect_ok, TaskQuery \notin failing)
        call == IF button = "stop" THEN SuspendCall ELSE ResumeCall
        c == RunQuery(t, call, connect_ok, call \notin failing)
        b == IF button = "none" THEN t
             ELSE IF c.stopped THEN c
             ELSE IF c.raised THEN [c EXCEPT !.raised = FALSE, !.shown = "Error"]
             ELSE [c EXCEPT !.shown = IF button = "stop" THEN "Automation stopped"
                                      ELSE "Automation started"]
        e == RunQuery(b, ErrorQuery, connect_ok, ErrorQuery \notin failing)
    IN IF t.stopped \/ t.raised THEN t
       ELSE IF b.stopped THEN b
       ELSE e

\* the outcome of a script run becomes the state of the app
Rendered(a) ==
    /\ conn_cache' = a.conn_cache
    /\ conns_created' = a.created
    /\ query_cache' = a.query_cache
    /\ executed' = a.executed
    /\ shown' = a.shown
    /\ gets' = a.gets

Buttons == {"none", "stop", "start"}
Failures == {{}} \cup {{q} : q \in Statements}

\* the clock of the app advances
MonTick ==
    /\ mon_clock + TickSeconds <= MaxMonClock
    /\ mon_clock' = mon_clock + TickSeconds
    /\ UNCHANGED <<besideMonitor, conn_cache, conns_created, dead, query_cache, executed,
                   shown, clicks, gets>>

\* the session of a connection expires
ConnectionDies(c) ==
    /\ c \in 1..conns_created
    /\ c \notin dead
    /\ dead' = dead \cup {c}
    /\ UNCHANGED <<besideMonitor, mon_clock, conn_cache, conns_created, query_cache,
                   executed, shown, clicks, gets>>

\* a script run on the Task Control page: the page is opened or one of the
\* automation buttons is clicked
TaskControlRun(button, connect_ok, failing) ==
    /\ button # "none" => clicks < MaxClicks
    /\ connect_ok => conns_created < MaxConns
    /\ Rendered(ShowTaskControl(App, button, connect_ok, failing))
    /\ clicks' = IF button = "none" THEN clicks ELSE clicks + 1
    /\ UNCHANGED <<besideMonitor, mon_clock, dead>>

\* main: 'Refresh Data' clears run_query's cache and reruns the script
RefreshData(connect_ok, failing) ==
    /\ connect_ok => conns_created < MaxConns
    /\ Rendered(ShowTaskControl([App EXCEPT !.query_cache = [q \in Statements |-> <<>>]],
                                "none", connect_ok, failing))
    /\ UNCHANGED <<besideMonitor, mon_clock, dead, clicks>>

NextMonitor ==
    \/ MonTick
    \/ \E c \in 1..MaxConns : ConnectionDies(c)
    \/ \E button \in Buttons, connect_ok \in BOOLEAN, failing \in Failures :
           TaskControlRun(button, connect_ok, failing)
    \/ \E connect_ok \in BOOLEAN, failing \in Failures : RefreshData(connect_ok, failing)

SpecMonitor == InitMonitor /\ [][NextMonitor]_vars

\* C26: the message shown for the button clicked last names the automation
\* CALL the warehouse executed last: 'Automation stopped' after SUSPEND,
\* 'Automation started' after RESUME.
C26_LastCallMatchesLastClick ==
    /\ shown = "Automation stopped"
          => executed # <<>> /\ executed[Len(executed)] = SuspendCall
    /\ shown = "Automation started"
          => executed # <<>> /\ executed[Len(executed)] = ResumeCall

\* C30: every call of get_fresh_connection that returns a connection returns
\* either the cached one, alive (it passed the probe), or one it opened itself
\* in place of the cached one; it opens at most one connection in place of a
\* cached one.
C30_FreshConnection ==
    \A i \in 1..Len(gets) :
        LET g == gets[i]
        IN /\ g.opened <= 1
           /\ g.returned # <<>> =>
                 \/ g.returned = g.cached /\ g.alive /\ g.opened = 0
                 \/ /\ g.returned # g.cached
                    /\ g.opened = 1
                    /\ g.alive
                    /\ \A c \in Range(g.cached) : c < g.returned[1]

\* a call found the cached connection dead and returned a new one
C30_Witness ==
    \E i \in 1..Len(gets) :
        /\ gets[i].cached = <<1>>
        /\ 1 \in dead
        /\ gets[i].returned = <<2>>

(* ======================== the single-email apps ======================= *)
\* minimal_app (single_email_form) and sample_email_app (process_btn): the
\* processing action of a session is four statements on the shared cached
\* connection, each committed on its own; sessions run in threads of one
\* server, so their statements interleave.
besideForms == <<max_emails_per_run, payload_kinds, payload, body_content, sinkVars,
                pipeline, srcVars, monVars, directVars>>

\* the sender and subject of the emails processed
Keys == {[sender |-> "test@example.com", subject |-> "Test Email - Quick Meeting"],
         [sender |-> "test@example.com", subject |-> "Other"]}

InitForms ==
    /\ InitPipeline
    /\ payload_kinds = {PlainHi}
    /\ NoExtraction
    /\ NoSink
    /\ NoSource
    /\ NoMonitor
    /\ NoDirect
    /\ NoForms

\* the statement raised: the except of the action shows the error
FormError(u) == form_pc' = [form_pc EXCEPT ![u] = "idle"]

\* the action starts: INSERT INTO PROCESSED_EMAILS (sender_email, subject, ...)
ProcessEmail(u, key, ok) ==
    /\ form_pc[u] = "idle"
    /\ Len(pe_rows) < MaxRows
    /\ form_n[u] < MaxRows
    /\ form_n' = [form_n EXCEPT ![u] = @ + 1]
    /\ form_key' = [form_key EXCEPT ![u] = <<key>>]
    /\ form_email_id' = [form_email_id EXCEPT ![u] = <<>>]
    /\ IF ok
       THEN /\ pe_rows' = Append(pe_rows, [key |-> key, by |-> u, n |-> form_n[u] + 1])
            /\ form_pc' = [form_pc EXCEPT ![u] = "select"]
       ELSE /\ pe_rows' = pe_rows
            /\ FormError(u)
    /\ UNCHANGED <<besideForms, email_summaries>>

\* SELECT email_id FROM PROCESSED_EMAILS WHERE sender_email = %s AND
\* subject = %s ORDER BY extracted_timestamp DESC LIMIT 1
NewestEmailId(key) ==
    Max({i \in 1..Len(pe_rows) : pe_rows[i].key = key})

\* 'Get the email ID we just inserted': email_id = email_result[0][0]
GetEmailId(u, ok) ==
    /\ form_pc[u] = "select"
    /\ IF ok
       THEN /\ form_email_id' = [form_email_id EXCEPT ![u] = <<NewestEmailId(form_key[u][1])>>]
            /\ form_pc' = [form_pc EXCEPT ![u] = "summarize"]
       ELSE /\ form_email_id' = form_email_id
            /\ FormError(u)
    /\ UNCHANGED <<besideForms, pe_rows, email_summaries, form_key, form_n>>

\* SELECT SNOWFLAKE.CORTEX.SUMMARIZE(%s)
Summarize(u, ok) ==
    /\ form_pc[u] = "summarize"
    /\ IF ok THEN form_pc' = [form_pc EXCEPT ![u] = "insert_summary"] ELSE FormError(u)
    /\ UNCHANGED <<besideForms, pe_rows, email_summaries, form_key, form_email_id, form_n>>

\* INSERT INTO EMAIL_SUMMARIES (email_id, ...) VALUES (email_id, ...)
InsertSummary(u, ok) ==
    /\ form_pc[u] = "insert_summary"
    /\ email_summaries' =
          IF ok THEN email_summaries \cup {[email_id |-> form_email_id[u][1], by |-> u,
                                            n |-> form_n[u]]}
          ELSE email_summaries
    /\ FormError(u)
    /\ UNCHANGED <<besideForms, pe_rows, form_key, form_email_id, form_n>>

NextForms ==
    \E u \in Sessions, ok \in BOOLEAN :
        \/ \E key \in Keys : ProcessEmail(u, key, ok)
        \/ GetEmailId(u, ok)
        \/ Summarize(u, ok)
        \/ InsertSummary(u, ok)

SpecForms == InitForms /\ [][NextForms]_vars

\* C28: every EMAIL_SUMMARIES row is linked to the PROCESSED_EMAILS row that
\* the same processing action of the same session inserted.
C28_SummaryLinkedToOwnEmail ==
    \A m \in email_summaries :
        /\ pe_rows[m.email_id].by = m.by
        /\ pe_rows[m.email_id].n = m.n

(* ====================== properties of the pipeline ==================== *)
\* the message ids of a batch, in batch order
Ids(batch) == [i \in 1..Len(batch) |-> batch[i].messageId]

\* the mailbox message with id x
Msg(x) == CHOOSE m \in mailbox : m.id = x

\* the current call of process_domain_emails is past its watermark read
PastWatermark == pc \in {"list", "details", "fetched", "metrics", "return"}

\* the key under which the current run uploads
RunKey == S3Key(BatchName(domain), now)

\* message m is in a delivered object or has been ingested downstream
Delivered(m) ==
    \/ \E o \in s3 : m.id \in Range(Ids(o.body))
    \/ m.id \in {r.id : r \in processed}

\* a is ordered as l: two elements of a appear in l in the same relative order
OrderedAs(a, l) ==
    \A i, j \in 1..Len(a) :
        i < j => \E k, n \in 1..Len(l) : k < n /\ l[k] = a[i] /\ l[n] = a[j]

\* C1: a run whose watermark query failed issues no messages.list call and
\* ends with an error status
C1_WatermarkFailureIsFatal ==
    (PastWatermark /\ last_processed = None) =>
        /\ query = None
        /\ (pc = "return" => result.status = "error")

\* C2 (safety form of at-least-once, one domain, page smaller than the
\* matches): as long as the store holds only rows of one domain, every
\* message of that domain in the mailbox is either delivered or still inside
\* the window the next run of that domain will query
C2_UndeliveredStaysInWindow ==
    \A m \in mailbox :
        (\A r \in processed : r.dom = m.dom) =>
            \/ Delivered(m)
            \/ Matches(m, BuildQuery(m.dom, LastProcessedTimestamp(processed, now)))

\* C3: when the watermark was read and everything delivered earlier has been
\* processed downstream, the batch a run hands to the Sink holds no message
\* that already landed
C3_LandedOnce ==
    (pc = "metrics" /\ last_processed # None /\ pending = {RunKey}) =>
        \A i \in 1..Len(emails) : emails[i].messageId \notin {r.id : r \in processed}

\* C4: the window queried by the run that follows a failed delivery of the
\* same domain contains every message of the failed batch, also when only
\* other domains have rows in the store
C4_FailedBatchRefetched ==
    (PastWatermark /\ listed # None /\ (\A r \in processed : r.dom # domain)) =>
        \A i \in 1..Len(lastFailed[domain]) :
            Matches(Msg(lastFailed[domain][i].messageId), query[1])

\* C5: the watermark read by a run on domain D is the one computed from the
\* stored rows of D alone
C5_WatermarkPerDomain ==
    (PastWatermark /\ last_processed # None) =>
        last_processed = LastProcessedTimestamp({r \in processed : r.dom = domain}, now)

\* C6: a run whose delivery failed returns status error, and the watermark the
\* store yields after the run is the one the run read at its start
C6_FailedDeliveryKeepsWatermark ==
    (pc = "return" /\ puts > 0 /\ lastFailed[domain] # <<>>) =>
        /\ result.status = "error"
        /\ (last_processed # None =>
                LastProcessedTimestamp(processed, now) = last_processed)

C6_Witness ==
    /\ pc = "return"
    /\ puts > 0
    /\ lastFailed[domain] # <<>>
    /\ Len(emails) = 2
    /\ last_processed # None
    /\ processed # {}

\* C7: a run whose source listing is empty returns success with
\* emails_processed = 0 and has issued no put_object
C7_EmptyFetchIsSuccessWithoutSink ==
    (pc = "return" /\ listed = <<(<<>>)>>) =>
        /\ result.status = "success"
        /\ result.emails_processed = 0
        /\ puts = 0

C7_Witness ==
    /\ pc = "return"
    /\ listed = <<(<<>>)>>
    /\ \E m \in mailbox : m.dom = domain

\* C8: a run whose messages.list call failed returns an error status
C8_ListFailureIsError ==
    (pc = "return" /\ query # None /\ listed = None) => result.status = "error"

\* C9: once the fetch is complete the batch holds exactly the listed
\* messages, one entry each
C9_BatchIsListing ==
    (pc = "fetched" /\ listed # None) => Ids(emails) = listed[1]

\* C10: the batch keeps the order of the source listing, and the object
\* handed to the Sink holds the batch in that same order
C10_BatchKeepsSourceOrder ==
    /\ (listed # None => OrderedAs(Ids(emails), listed[1]))
    /\ (pc = "metrics" =>
            \E o \in s3 : /\ o.key = RunKey
                          /\ o.body = emails
                          /\ OrderedAs(Ids(o.body), listed[1]))

C10_Witness ==
    /\ pc = "metrics"
    /\ Len(emails) = 2

\* the calls of the current run named c, in order
CallsOf(c) == SelectSeq(calls, LAMBDA x : x.call = c)

\* the put_object call of the current run succeeded
PutSucceeded == Call("put", TRUE) \in Range(calls)

\* C11: in a run with a non-empty batch of n messages whose put_object
\* succeeded, exactly one put_object was issued, the object it wrote holds the
\* n messages of the batch, and the run returns success with
\* emails_processed = n
C11_OneDeliveryOfWholeBatch ==
    (PutSucceeded /\ emails # <<>>) =>
        /\ puts = 1
        /\ Len(CallsOf("put")) = 1
        /\ \E o \in s3 : /\ o.key = RunKey
                          /\ Len(o.body) = Len(emails)
                          /\ \A i \in 1..Len(emails) : o.body[i] = emails[i]
        /\ (pc = "return" =>
                /\ result.status = "success"
                /\ result.emails_processed = Len(emails))

C11_Witness ==
    /\ pc = "return"
    /\ PutSucceeded
    /\ Len(emails) = 2
    /\ result.emails_processed = 2
    /\ emails[1].internalDate # emails[2].internalDate

\* the messages.get calls of the current run that raised
GetFailed == Len(SelectSeq(calls, LAMBDA x : x.call = "get" /\ ~x.ok))

\* C14: only a failed messages.get keeps a listed message out of the batch; a
\* message whose body cannot be decoded is in the batch with the body
\* "Content extraction failed", the other entries carry their decoded text
\* and their own fields, and a run with a non-empty batch goes on to its one
\* put_object
C14_ExtractionFailureKeepsBatch ==
    listed # None =>
        /\ Len(emails) + GetFailed + Len(messages) = Len(listed[1])
        /\ \A i \in 1..Len(emails) :
              LET m == Msg(emails[i].messageId)
              IN /\ m.payload = PlainBad => emails[i].body = ContentExtractionFailed
                 /\ m.payload = PlainHi => emails[i].body = TextContent(<<72, 105>>)
                 /\ emails[i].from = m.dom
                 /\ emails[i].internalDate = m.at
        /\ (pc \in {"metrics", "return"} /\ emails # <<>> => puts = 1)

C14_Witness ==
    /\ pc = "metrics"
    /\ Len(emails) = 2
    /\ emails[1].body = ContentExtractionFailed
    /\ emails[2].body = TextContent(<<72, 105>>)
    /\ \E o \in s3 : o.key = RunKey /\ o.body = emails

\* C15: whenever the put_object of a run succeeded, the run returns the
\* success result with emails_processed equal to the batch size, whether the
\* metrics insert succeeded or failed
C15_MetricsFailureKeepsResult ==
    (pc = "return" /\ PutSucceeded) =>
        /\ Len(CallsOf("metrics")) = 1
        /\ result = ResultUploaded(Len(emails), now - start_time)
        /\ result.status = "success"
        /\ result.emails_processed = Len(emails)

C15_Witness ==
    /\ pc = "return"
    /\ PutSucceeded
    /\ Call("metrics", FALSE) \in Range(calls)
    /\ metrics = 0
    /\ result.status = "success"
    /\ result.emails_processed = 2

\* the current call of process_domain_emails has not returned yet
InRun == pc \in {"watermark", "list", "details", "fetched", "metrics"}

\* C16: the domains attempted so far are the configured ones, once each and
\* in configuration order; a run is on the domain attempted last; every
\* returned result, error or not, leads back to the loop at the next domain;
\* and the driver leaves the loop only when every domain has been attempted
C16_EveryDomainAttemptedInOrder ==
    /\ [](/\ Len(attempted) <= Len(TargetDomains)
          /\ \A i \in 1..Len(attempted) : attempted[i] = TargetDomains[i]
          /\ (pc = "loop" => Len(attempted) = di - 1)
          /\ (InRun \/ pc = "return" => Len(attempted) = di)
          /\ (InRun => domain = TargetDomains[di]))
    /\ [][(pc = "return" => pc' = "loop" /\ di' = di + 1)
          /\ (pc \in {"loop", "return"} /\ pc' = "idle" => attempted = TargetDomains)]_vars

C16_Witness ==
    /\ pc = "loop"
    /\ di > Len(TargetDomains)
    /\ attempted = TargetDomains
    /\ lastFailed[TargetDomains[1]] # <<>>
    /\ lastFailed[TargetDomains[2]] = <<>>
    /\ total_processed > 0

\* C19 as stated: every returned summary carries status, emails_processed and
\* message, with status 'success' or 'error'
C19_SummaryHasThreeFields ==
    pc = "return" =>
        /\ {"status", "emails_processed", "message"} \subseteq DOMAIN result
        /\ result.status \in {"success", "error"}

\* C19 amended: a call returns one summary, set when it returns and not
\* before, after at most four calls besides one messages.get per listed
\* message; every summary carries status ('success' or 'error') and message;
\* a success summary also carries emails_processed, the batch size; an error
\* summary carries status and message only
C19_SummaryShape ==
    /\ (pc # "return" => result = NoResult)
    /\ (InRun \/ pc = "return" => Len(calls) <= 4 + max_emails_per_run)
    /\ (pc = "return" =>
            /\ result.status \in {"success", "error"}
            /\ {"status", "message"} \subseteq DOMAIN result
            /\ (result.status = "success" =>
                    /\ "emails_processed" \in DOMAIN result
                    /\ result.emails_processed = Len(emails))
            /\ (result.status = "error" => DOMAIN result = {"status", "message"}))

C19_Witness ==
    /\ pc = "return"
    /\ result.status = "error"
    /\ Len(emails) = 2
    /\ "emails_processed" \notin DOMAIN result

\* the place of a call in the order of a run
Rank(c) ==
    CASE c = "watermark" -> 1
      [] c = "list" -> 2
      [] c = "get" -> 3
      [] c = "put" -> 4
      [] c = "metrics" -> 5

\* C20: the calls of a run are issued in the order watermark, list,
\* messages.get (one per listed message), put_object, metrics; put_object is
\* issued only when every listed message has been fetched and extracted, and
\* the metrics insert only after a put_object that succeeded
C20_StepsInOrder ==
    /\ \A i, j \in 1..Len(calls) :
          i < j => /\ Rank(calls[i].call) <= Rank(calls[j].call)
                   /\ (calls[i].call = calls[j].call => calls[i].call = "get")
    /\ (calls # <<>> => calls[1].call = "watermark")
    /\ (Len(calls) >= 2 => calls[2].call = "list")
    /\ (CallsOf("put") # <<>> =>
            /\ listed # None
            /\ messages = <<>>
            /\ Len(CallsOf("get")) = Len(listed[1])
            /\ Len(emails) + GetFailed = Len(listed[1]))
    /\ (CallsOf("metrics") # <<>> =>
            /\ PutSucceeded
            /\ Call("put", FALSE) \notin Range(calls))

C20_Witness ==
    /\ pc = "return"
    /\ Len(calls) = 6
    /\ calls[5] = Call("put", TRUE)
    /\ calls[6].call = "metrics"

\* C21: a run reads the watermark at most once; no step of a run changes
\* PROCESSED_EMAILS; and the one warehouse write of a run is the metrics
\* insert, made in the metrics step after a successful put_object
C21_RunReadsOnceWritesMetricsOnly ==
    /\ [](Len(CallsOf("watermark")) <= 1)
    /\ [][(InRun \/ pc = "return") =>
            /\ processed' = processed
            /\ (metrics' # metrics =>
                    /\ pc = "metrics"
                    /\ PutSucceeded
                    /\ metrics' = metrics + 1)]_vars

C21_Witness ==
    /\ pc = "return"
    /\ Call("watermark", TRUE) \in Range(calls)
    /\ Call("metrics", TRUE) \in Range(calls)
    /\ metrics = 2
    /\ processed # {}
    /\ \E i \in 1..Len(emails) : emails[i].messageId \notin {r.id : r \in processed}

\* C22: a watermark that was read is the day of now - 7 days when
\* PROCESSED_EMAILS is empty, and the day of the greatest stored email_date
\* when it is not
C22_FallbackOnlyWhenStoreEmpty ==
    (PastWatermark /\ last_processed # None) =>
        /\ (processed = {} =>
                last_processed = <<Day(now - FallbackDays * TicksPerDay)>>)
        /\ (processed # {} =>
                /\ \E r \in processed :
                      /\ last_processed = <<Day(r.at)>>
                      /\ \A q \in processed : q.at <= r.at
                /\ last_processed # <<Day(now - FallbackDays * TicksPerDay)>>)

C22_Witness ==
    /\ PastWatermark
    /\ last_processed = <<1>>
    /\ Cardinality(processed) = 2
    /\ \E r \in processed : Day(r.at) = 0

\* main() is at one of its three setup calls
InSetup == pc \in {"auth", "s3", "snowflake"}

\* the setup calls of an invocation that reached the domain loop
AllSetUp == <<Call("authenticate_gmail", TRUE), Call("setup_aws_s3", TRUE),
              Call("setup_snowflake", TRUE)>>

\* C23: authenticate_gmail is called once per invocation, before anything
\* else; a domain is attempted only after the three setup calls succeeded,
\* each called once; and the step on which a setup call fails ends the
\* invocation, whatever messages wait in the mailbox, with no domain
\* attempted and nothing written to the bucket or the warehouse
C23_SetupFailureEndsInvocation ==
    /\ [](/\ (pc = "auth" => setup_calls = <<>>)
          /\ (pc = "s3" => setup_calls = SubSeq(AllSetUp, 1, 1))
          /\ (pc = "snowflake" => setup_calls = SubSeq(AllSetUp, 1, 2))
          /\ (InSetup => attempted = <<>> /\ calls = <<>> /\ puts = 0 /\ query = None)
          /\ (attempted # <<>> \/ calls # <<>> => setup_calls = AllSetUp)
          /\ (pc = "idle" /\ setup_calls # <<>> =>
                /\ setup_calls[Len(setup_calls)].ok = FALSE
                /\ \A i \in 1..Len(setup_calls) - 1 : setup_calls[i] = AllSetUp[i]
                /\ attempted = <<>>
                /\ calls = <<>>))
    /\ [][InSetup =>
            /\ UNCHANGED <<s3, pending, processed, metrics>>
            /\ pc' \in {"s3", "snowflake", "loop", "idle"}
            /\ pc' # pc]_vars

C23_Witness ==
    /\ pc = "idle"
    /\ setup_calls = <<Call("authenticate_gmail", FALSE)>>
    /\ \A d \in Domains : \E m \in mailbox : m.dom = d
    /\ s3 = {}
    /\ metrics = 0

\* C29: no put_object replaces an object that an earlier delivery wrote: every
\* object in the bucket is still there, unchanged, after every step of a run
\* none of whose calls failed
C29_DeliveriesKeepEarlierObjects ==
    [][(\A i \in 1..Len(calls) : calls[i].ok) => \A o \in s3 : o \in s3']_vars

====
